---- MODULE Spec2Model ----
(***************************************************************************)
(* A model of GDrive_batch.py: extraction of the folder identifier from a  *)
(* share link, the paginated listing, the credential provider, the         *)
(* recursive tree download, the session orchestrator and the interactive   *)
(* front end.  Strings are sequences of one-character strings; a local     *)
(* path is the sequence of names below the download path.                  *)
(***************************************************************************)
EXTENDS Integers, Sequences, FiniteSets, TLC

VARIABLES
    shared_url,     \* get_shared_folder_id: the argument
    folder_id,      \* get_shared_folder_id: the value returned
    urlPc,          \* "call" before the call, "returned" after it
    list_source,    \* list_files_in_folder: the answers of the service, page by page
    list_result,    \* list_files_in_folder: how the call ended
    listPc,         \* "call" before the call, "returned" after it
    cred_env,       \* get_credentials: the arguments and the files and service it meets
    cred_result,    \* get_credentials: how the call ended
    credPc,         \* "call" before the call, "returned" after it
    download_path,  \* download_files_from_shared_link: the argument ("" or a path)
    tree,           \* the remote folders: folder id -> the entries of the folder
    orchPc,         \* download_files_from_shared_link: where the call is
    stages,         \* the stages the call has entered, in order
    result,         \* the value returned: "none" before the return
    credentials,    \* what get_credentials returned: "unset" before the stage
    service,        \* what create_service returned: "unset" before the stage
    files,          \* the root listing, once the ListRoot stage has it
    stack,          \* the frames of process_files, the running one last
    dirs,           \* the local directories, as paths below the download path
    local_files,    \* the local files: path, id of the content, complete or not
    calls,          \* what was called so far, for the claims to read
    entries,        \* the front end: the shared link and download path fields
    button,         \* the state of the Download button: "normal" or "disabled"
    status_text,    \* the status indicator
    error_label,    \* the error label: shown or not, and the clear_error timers set
    after_queue,    \* the callbacks queued by after(0, ...), the oldest first
    workers         \* where each perform_download thread is

urlVars == <<shared_url, folder_id, urlPc>>
listVars == <<list_source, list_result, listPc>>
credVars == <<cred_env, cred_result, credPc>>

orchVars == <<download_path, tree, orchPc, stages, result, credentials, service, files,
             stack, dirs, local_files, calls>>

guiVars == <<entries, button, status_text, error_label, after_queue, workers>>

vars == <<urlVars, listVars, credVars, orchVars, guiVars>>

\* what the orchestrator and the walk leave alone
outsideOrch == <<urlPc, listVars, credVars, guiVars>>

-----------------------------------------------------------------------------
(* Bounds *)

MaxTokens == 4      \* a share link is made of at most this many tokens
MaxPages == 3       \* a listing has at most this many pages
MaxPageFiles == 2   \* a page of a listing has at most this many entries
MaxDepth == 2       \* the remote folders nest at most this deep
MaxRuns == 2        \* the front end starts at most this many downloads

-----------------------------------------------------------------------------
(* Python values *)

\* Python's None and a str value, as the result of a function returning
\* "str or None"
None == [kind |-> "None", val |-> <<>>]
Str(s) == [kind |-> "str", val |-> s]

\* Python truthiness of such a value: None and "" are falsy
Truthy(v) == v.kind = "str" /\ v.val # <<>>

\* Python: sub in s
Contains(s, sub) ==
    \E i \in 1..(Len(s) - Len(sub) + 1) : SubSeq(s, i, i + Len(sub) - 1) = sub

\* Python: s.find(sub) + 1 (0 when sub does not occur in s)
Find(s, sub) ==
    IF Contains(s, sub)
    THEN CHOOSE i \in 1..(Len(s) - Len(sub) + 1) :
            /\ SubSeq(s, i, i + Len(sub) - 1) = sub
            /\ \A j \in 1..(i - 1) : SubSeq(s, j, j + Len(sub) - 1) # sub
    ELSE 0

\* Python: s.split(sep), the list of the pieces of s between the occurrences
\* of sep, scanned from the left
RECURSIVE Split(_, _)
Split(s, sep) ==
    LET i == Find(s, sep)
    IN  IF i = 0
        THEN <<s>>
        ELSE <<SubSeq(s, 1, i - 1)>> \o Split(SubSeq(s, i + Len(sep), Len(s)), sep)

-----------------------------------------------------------------------------
(* get_shared_folder_id *)

FOLDERS == <<"f", "o", "l", "d", "e", "r", "s", "/">>
FOLDERVIEW == <<"f", "o", "l", "d", "e", "r", "v", "i", "e", "w", "?", "i", "d", "=">>
QMARK == <<"?">>
AMP == <<"&">>

\* the delimiter that ends the identifier after each marker
FoldersDelimiter_amp == AMP
FoldersDelimiter == QMARK
FolderviewDelimiter == AMP

\* list[k] of Python, 0-based: IndexError when the list is too short
Item(list, k) ==
    IF k + 1 <= Len(list) THEN Str(list[k + 1]) ELSE [kind |-> "IndexError", val |-> <<>>]

\* shared_url.split(marker)[1].split(delimiter)[0]
AfterMarker(url, marker, delimiter) ==
    LET piece == Item(Split(url, marker), 1)
    IN  IF piece.kind = "IndexError" THEN piece
        ELSE Item(Split(piece.val, delimiter), 0)

\* the body of the try block
ExtractId(url) ==
    IF Contains(url, FOLDERS) THEN AfterMarker(url, FOLDERS, FoldersDelimiter)
    ELSE IF Contains(url, FOLDERVIEW) THEN AfterMarker(url, FOLDERVIEW, FolderviewDelimiter)
    ELSE None

get_shared_folder_id(url) ==
    IF url = <<>> THEN None
    ELSE LET r == ExtractId(url)
         IN  IF r.kind = "IndexError" THEN None ELSE r

-----------------------------------------------------------------------------
(* Share links given to get_shared_folder_id: every sequence of at most     *)
(* MaxTokens tokens, a token being a marker, a delimiter, an identifier     *)
(* character or a piece of the address before the marker.                   *)

IdChars == {"a", "B"}
Tokens == {FOLDERS, FOLDERVIEW, QMARK, AMP, <<"a">>, <<"B">>, <<"d", "/">>}

RECURSIVE Flatten(_)
Flatten(ts) == IF ts = <<>> THEN <<>> ELSE Head(ts) \o Flatten(Tail(ts))

TokenSeqs == UNION {[1..n -> Tokens] : n \in 0..MaxTokens}
UrlInputs == {Flatten(ts) : ts \in TokenSeqs}

UrlInit ==
    /\ shared_url \in UrlInputs
    /\ folder_id = None
    /\ urlPc = "call"

UrlIdle ==
    /\ shared_url = <<>>
    /\ folder_id = None
    /\ urlPc = "idle"

CallGetSharedFolderId ==
    /\ urlPc = "call"
    /\ folder_id' = get_shared_folder_id(shared_url)
    /\ urlPc' = "returned"
    /\ UNCHANGED <<shared_url, listVars, credVars, orchVars, guiVars>>

-----------------------------------------------------------------------------
(* list_files_in_folder *)

\* What service.files().list(...).execute() answers to one page request:
\*   "dict"       a page, with its files and, unless it is the last one, a
\*                nextPageToken
\*   "empty"      an answer without any field ({}), necessarily the last one
\*   "HttpError"  the request raises HttpError
\*   "Exception"  the request raises an exception that is no HttpError (the
\*                transport failed: no route, timeout, reset connection)
\* A source is the sequence of the answers to the successive page requests;
\* the token of answer i asks for answer i + 1.
Page(items, more) == [kind |-> "dict", files |-> items, nextPageToken |-> more]
EmptyAnswer == [kind |-> "empty", files |-> <<>>, nextPageToken |-> FALSE]
RaiseHttpError == [kind |-> "HttpError", files |-> <<>>, nextPageToken |-> FALSE]
RaiseException == [kind |-> "Exception", files |-> <<>>, nextPageToken |-> FALSE]

\* how a call ends: it returns a list, or an exception leaves it (an
\* HttpError carries the entries accumulated when it was raised, for the
\* except clause to see); requests counts the page requests issued
Returned(list) == [kind |-> "return", val |-> list, requests |-> 0]
Raised(what, results) == [kind |-> what, val |-> results, requests |-> 0]
Requests(r, n) == [r EXCEPT !.requests = n]

\* the except HttpError clause: what it returns, given the entries
\* accumulated so far
OnHttpError_keep(results) == Returned(results)
OnHttpError(results) == Returned(<<>>)

\* the while True loop, from the request of answer i on
RECURSIVE ListLoop(_, _, _)
ListLoop(source, i, results) ==
    LET results_page == source[i]
    IN  IF results_page.kind = "HttpError" THEN Requests(Raised("HttpError", results), i)
        ELSE IF results_page.kind = "Exception" THEN Requests(Raised("Exception", <<>>), i)
        ELSE IF results_page.kind = "empty" THEN Requests(Returned(results), i)
        ELSE IF results_page.files = <<>> THEN Requests(Returned(results), i)
        ELSE IF ~results_page.nextPageToken
             THEN Requests(Returned(results \o results_page.files), i)
        ELSE ListLoop(source, i + 1, results \o results_page.files)

list_files_in_folder(source) ==
    LET r == ListLoop(source, 1, <<>>)
    IN  IF r.kind = "HttpError" THEN Requests(OnHttpError(r.val), r.requests) ELSE r

\* The sources of the listing specification: N answers, N in 1..MaxPages;
\* answer i is a page of 0..MaxPageFiles entries (entry j of page i is the
\* number 10 * i + j, so that no two entries are equal) or an error, and the
\* last page may be the empty answer.
PageNo(i, n, more) == Page([j \in 1..n |-> 10 * i + j], more)

AnswersAt(i, N) ==
    {PageNo(i, n, i < N) : n \in 0..MaxPageFiles}
        \cup {RaiseHttpError, RaiseException}
        \cup (IF i = N THEN {EmptyAnswer} ELSE {})

ListSources ==
    UNION {{s \in [1..N -> UNION {AnswersAt(i, N) : i \in 1..N}] :
                \A i \in 1..N : s[i] \in AnswersAt(i, N)} : N \in 1..MaxPages}

ListInit ==
    /\ list_source \in ListSources
    /\ list_result = Returned(<<>>)
    /\ listPc = "call"

ListIdle ==
    /\ list_source = <<>>
    /\ list_result = Returned(<<>>)
    /\ listPc = "idle"

CallListFilesInFolder ==
    /\ listPc = "call"
    /\ list_result' = list_files_in_folder(list_source)
    /\ listPc' = "returned"
    /\ UNCHANGED <<list_source, urlVars, credVars, orchVars, guiVars>>

-----------------------------------------------------------------------------
(* get_credentials *)

\* What a call of get_credentials meets:
\*   use_service_account  the argument
\*   sa_file     the service account file: "missing", "malformed" or "ok"
\*   token_file  the token file: "absent", "malformed" or "ok"
\*   valid, expired, refresh_token   the properties of the loaded token
\*   refresh_ok  whether creds.refresh(Request()) succeeds
\*   save_ok     whether the token file can be written
CredEnvs ==
    {e \in [use_service_account : BOOLEAN,
            sa_file : {"missing", "malformed", "ok"},
            token_file : {"absent", "malformed", "ok"},
            valid : BOOLEAN, expired : BOOLEAN, refresh_token : BOOLEAN,
            refresh_ok : BOOLEAN, save_ok : BOOLEAN] :
        e.valid => ~e.expired}

\* how a call ends: creds is "None", "service_account" or "user";
\* refreshed and written tell whether the token was refreshed and whether
\* the token file was rewritten
Creds(c, refreshed, written) ==
    [kind |-> "return", creds |-> c, refreshed |-> refreshed, written |-> written]

\* the except clause of get_service_account_credentials
OnServiceAccountError == "None"

get_service_account_credentials(env) ==
    IF env.sa_file = "ok" THEN "service_account" ELSE OnServiceAccountError

\* the except clause around the writing of the token file: the refreshed
\* credentials are still returned
OnSaveError(c) == Creds(c, TRUE, FALSE)

\* the branch taken when there are no valid credentials
RefreshCredentials(env, loaded) ==
    IF loaded /\ env.expired /\ env.refresh_token
    THEN IF ~env.refresh_ok THEN Creds("None", FALSE, FALSE)
         ELSE IF env.save_ok THEN Creds("user", TRUE, TRUE)
         ELSE OnSaveError("user")
    ELSE Creds("None", FALSE, FALSE)

get_credentials_interactive(env) ==
    LET loaded == env.token_file = "ok"
    IN  IF ~loaded \/ ~env.valid
        THEN RefreshCredentials(env, loaded)
        ELSE Creds("user", FALSE, FALSE)

\* what get_credentials does when the service account credentials could
\* not be loaded
ServiceAccountFallback_none(env) == Creds("None", FALSE, FALSE)
ServiceAccountFallback(env) == get_credentials_interactive(env)

get_credentials(env) ==
    IF env.use_service_account
    THEN LET c == get_service_account_credentials(env)
         IN  IF c # "None" THEN Creds(c, FALSE, FALSE) ELSE ServiceAccountFallback(env)
    ELSE get_credentials_interactive(env)

CredInit ==
    /\ cred_env \in CredEnvs
    /\ cred_result = Creds("None", FALSE, FALSE)
    /\ credPc = "call"

CredIdle ==
    /\ cred_env = CHOOSE e \in CredEnvs : TRUE
    /\ cred_result = Creds("None", FALSE, FALSE)
    /\ credPc = "idle"

CallGetCredentials ==
    /\ credPc = "call"
    /\ cred_result' = get_credentials(cred_env)
    /\ credPc' = "returned"
    /\ UNCHANGED <<cred_env, urlVars, listVars, orchVars, guiVars>>

-----------------------------------------------------------------------------
(* The remote folders and the local file system *)

File(id, name) == [id |-> id, name |-> name, mimeType |-> "file"]
Folder(id, name) == [id |-> id, name |-> name, mimeType |-> "folder"]

RootId == 0

\* folders nested MaxDepth deep: root/{a.txt, sub/{b.txt, sub/{... d.txt}}, c.txt}
ChainTree ==
    [f \in {10 * k : k \in 0..MaxDepth} |->
        IF f = RootId THEN <<File(1, "a.txt"), Folder(10, "sub"), File(3, "c.txt")>>
        ELSE IF f < 10 * MaxDepth THEN <<File(f + 1, "b.txt"), Folder(f + 10, "sub")>>
        ELSE <<File(f + 1, "d.txt")>>]

\* an empty subfolder, followed by a file
EmptySubTree ==
    (RootId :> <<Folder(10, "sub"), File(1, "a.txt")>>) @@ (10 :> <<>>)

\* two folders of one name, and a file of the name of a folder
SameNameTree ==
    (RootId :> <<Folder(10, "sub"), Folder(20, "sub"), File(1, "sub")>>)
        @@ (10 :> <<File(11, "b.txt")>>) @@ (20 :> <<File(21, "b.txt")>>)

\* an empty shared folder
EmptyRootTree == (RootId :> <<>>)

Trees == {ChainTree, EmptySubTree, SameNameTree, EmptyRootTree}

\* The local file system when the call starts: the download path is missing,
\* is an empty directory, or holds the files of an earlier run.
LocalFile(path, id, complete) == [path |-> path, id |-> id, complete |-> complete]

LocalStates ==
    { [dirs |-> {}, local_files |-> {}],
      [dirs |-> {<<>>}, local_files |-> {}],
      [dirs |-> {<<>>, <<"sub">>}, local_files |-> {LocalFile(<<"a.txt">>, -1, TRUE)}] }

\* os.path.exists(path), within a file system of directories ds and files fs
PathExists(path, ds, fs) == path \in ds \/ \E f \in fs : f.path = path

\* the directories os.makedirs(path) leaves behind
Prefixes(path) == {SubSeq(path, 1, k) : k \in 0..Len(path)}

\* os.makedirs(path) cannot but raise OSError: a component of path is a file
MakedirsBlocked(path, fs) == \E q \in Prefixes(path) : \E f \in fs : f.path = q

\* What the service answers to the listing of a folder of the given
\* children: two pages when there are two children or more; with a fault,
\* the last page request raises.
ListFaults == {"none", "HttpError", "Exception"}

Answers(children, fault) ==
    LET pages == IF Len(children) <= 1 THEN <<Page(children, FALSE)>>
                 ELSE <<Page(<<Head(children)>>, TRUE), Page(Tail(children), FALSE)>>
    IN  IF fault = "none" THEN pages
        ELSE [pages EXCEPT ![Len(pages)] =
                    IF fault = "HttpError" THEN RaiseHttpError ELSE RaiseException]

-----------------------------------------------------------------------------
(* download_file *)

\* What a download meets: "none", the metadata request raises ("metadata"),
\* the metadata tell a folder ("stale_folder"), or a chunk request raises
\* once the local file is open ("media").  Every exception is caught.
DownloadFaults == {"none", "metadata", "stale_folder", "media"}

\* io.FileIO(file_path, 'wb') raises: the directory is missing or file_path
\* is a directory
OpenFails(dir, file_path, ds) == dir \notin ds \/ file_path \in ds

\* the local file of a download: os.path.join(download_path, file_name)
FilePath(dir, file_name) == Append(dir, file_name)

\* the local files after download_file, and whether the file was written whole
download_file(file_id, file_name, dir, fault, ds, fs) ==
    LET file_path == FilePath(dir, file_name)
        others == {f \in fs : f.path # file_path}
    IN  IF fault \in {"metadata", "stale_folder"} \/ OpenFails(dir, file_path, ds)
        THEN [local_files |-> fs, written |-> FALSE]
        ELSE IF fault = "media"
        THEN [local_files |-> others \cup {LocalFile(file_path, file_id, FALSE)},
              written |-> FALSE]
        ELSE [local_files |-> others \cup {LocalFile(file_path, file_id, TRUE)},
              written |-> TRUE]

-----------------------------------------------------------------------------
(* process_files *)

\* a frame: the listing it walks, the index of the entry it is at, and
\* parent_folder_name as the sequence of its names ("" is <<>>)
Frame(listing, parent) == [files |-> listing, i |-> 1, parent |-> parent]

Top == stack[Len(stack)]
Entry == Top.files[Top.i]

\* parent_folder_name of the recursive call
SubfolderName_flat(parent, name) == <<name>>
SubfolderName(parent, name) == IF parent # <<>> THEN Append(parent, name) ELSE <<name>>

\* the for loop is at an entry
Iterating == orchPc = "Walk" /\ stack # <<>> /\ Top.i <= Len(Top.files)

\* the subfolder is to be created: parent_folder_name is not empty and
\* current_download_path does not exist
NeedsMakedirs == Top.parent # <<>> /\ ~PathExists(Top.parent, dirs, local_files)

\* continue: to the next entry of the running frame
NextEntry(st) == [st EXCEPT ![Len(st)].i = @ + 1]

\* the directories and the calls once the subfolder is there
DirsReady == IF NeedsMakedirs THEN dirs \cup Prefixes(Top.parent) ELSE dirs
CallsReady ==
    [calls EXCEPT !.visited = Append(@, Entry.id),
                  !.makedirs = IF NeedsMakedirs THEN Append(@, Top.parent) ELSE @]

\* os.makedirs raises OSError: the entry is skipped
SkipEntry ==
    /\ Iterating
    /\ NeedsMakedirs
    /\ stack' = NextEntry(stack)
    /\ calls' = [calls EXCEPT !.visited = Append(@, Entry.id),
                              !.makedirs = Append(@, Top.parent),
                              !.faults = @ + 1]
    /\ UNCHANGED <<shared_url, folder_id, outsideOrch>>
    /\ UNCHANGED <<download_path, tree, orchPc, stages, result, credentials, service, files,
                   dirs, local_files>>

\* the entry is a folder: it is listed and, unless the listing is empty,
\* walked; an exception that is no HttpError leaves process_files
EnterFolder ==
    /\ Iterating
    /\ Entry.mimeType = "folder"
    /\ NeedsMakedirs => ~MakedirsBlocked(Top.parent, local_files)
    /\ \E fault \in ListFaults :
        LET sub_files == list_files_in_folder(Answers(tree[Entry.id], fault))
            noted == [CallsReady EXCEPT !.list = @ + 1,
                                        !.faults = IF fault = "none" THEN @ ELSE @ + 1]
        IN  /\ dirs' = DirsReady
            /\ IF sub_files.kind # "return"
               THEN /\ orchPc' = "raised"
                    /\ stack' = <<>>
                    /\ calls' = noted
               ELSE IF sub_files.val # <<>>
               THEN /\ orchPc' = orchPc
                    /\ stack' = Append(stack, Frame(sub_files.val,
                                            SubfolderName(Top.parent, Entry.name)))
                    /\ calls' = [noted EXCEPT !.invoked = @ \cup {sub_files.val}]
               ELSE /\ orchPc' = orchPc
                    /\ stack' = NextEntry(stack)
                    /\ calls' = noted
    /\ UNCHANGED <<shared_url, folder_id, outsideOrch>>
    /\ UNCHANGED <<download_path, tree, stages, result, credentials, service, files, local_files>>

\* the entry is a file: download_file
DownloadEntry ==
    /\ Iterating
    /\ Entry.mimeType # "folder"
    /\ NeedsMakedirs => ~MakedirsBlocked(Top.parent, local_files)
    /\ \E fault \in DownloadFaults :
        LET d == download_file(Entry.id, Entry.name, Top.parent, fault,
                               DirsReady, local_files)
        IN  /\ local_files' = d.local_files
            /\ calls' = [CallsReady EXCEPT
                    !.download = @ + 1,
                    !.written = IF d.written
                                THEN @ \cup {<<FilePath(Top.parent, Entry.name), Entry.id>>}
                                ELSE @,
                    !.faults = IF d.written THEN @ ELSE @ + 1]
    /\ dirs' = DirsReady
    /\ stack' = NextEntry(stack)
    /\ UNCHANGED <<shared_url, folder_id, outsideOrch>>
    /\ UNCHANGED <<download_path, tree, orchPc, stages, result, credentials, service, files>>

\* the for loop is over: process_files returns, and its caller goes on with
\* the entry after the folder
ReturnProcessFiles ==
    /\ orchPc = "Walk"
    /\ stack # <<>>
    /\ Top.i > Len(Top.files)
    /\ stack' = IF Len(stack) = 1 THEN <<>>
                ELSE NextEntry(SubSeq(stack, 1, Len(stack) - 1))
    /\ UNCHANGED <<shared_url, folder_id, outsideOrch>>
    /\ UNCHANGED <<download_path, tree, orchPc, stages, result, credentials, service, files,
                   dirs, local_files, calls>>

-----------------------------------------------------------------------------
(* download_files_from_shared_link *)

\* the share links and download paths the call is given
DRIVE == <<"d", "/">>
OrchUrls ==
    { <<>>,                                 \* no link
      DRIVE \o <<"a">>,                     \* no marker
      DRIVE \o FOLDERS,                     \* a marker and no identifier
      DRIVE \o FOLDERS \o <<"a">> \o QMARK,  \* .../folders/{id}?...
      DRIVE \o FOLDERVIEW \o <<"B">> \o AMP } \* .../folderview?id={id}&...
OrchPaths == {<<>>, <<"x">>}

StageOrder == <<"ParseURL", "AcquireCredential", "BuildClient", "ListRoot", "Traverse">>

NoCalls ==
    [list |-> 0,            \* calls of list_files_in_folder
     download |-> 0,        \* calls of download_file
     makedirs |-> <<>>,     \* the paths os.makedirs was called with, in order
     written |-> {},        \* <<path, id>> of the files written whole
     visited |-> <<>>,      \* the ids of the entries the for loops came to
     invoked |-> {},        \* the listings process_files was called with
     faults |-> 0,          \* listings, downloads and makedirs that failed
     root_existed |-> FALSE]    \* the download path was a directory at the start

OrchInit ==
    /\ shared_url \in OrchUrls
    /\ folder_id = None
    /\ urlPc = "idle"
    /\ download_path \in OrchPaths
    /\ tree \in Trees
    /\ \E l \in LocalStates : dirs = l.dirs /\ local_files = l.local_files
    /\ orchPc = "start"
    /\ stages = <<>>
    /\ result = "none"
    /\ credentials = "unset"
    /\ service = "unset"
    /\ files = <<>>
    /\ stack = <<>>
    /\ calls = [NoCalls EXCEPT !.root_existed = <<>> \in dirs]

OrchIdle ==
    /\ download_path = <<>>
    /\ tree = EmptyRootTree
    /\ dirs = {}
    /\ local_files = {}
    /\ orchPc = "idle"
    /\ stages = <<>>
    /\ result = "none"
    /\ credentials = "unset"
    /\ service = "unset"
    /\ files = <<>>
    /\ stack = <<>>
    /\ calls = NoCalls

\* return value: the call is over
Return(value) == orchPc' = "done" /\ result' = value

\* the two checks before any stage: an argument is missing
InputsMissing_url(url, path) == url = <<>>
InputsMissing(url, path) == url = <<>> \/ path = <<>>

CheckInputs ==
    /\ orchPc = "start"
    /\ IF InputsMissing(shared_url, download_path)
       THEN Return("False")
       ELSE orchPc' = "ParseURL" /\ result' = result
    /\ UNCHANGED outsideOrch
    /\ UNCHANGED <<shared_url, folder_id, download_path, tree, stages, credentials,
                   service, files, stack, dirs, local_files, calls>>

ParseURL ==
    /\ orchPc = "ParseURL"
    /\ stages' = Append(stages, "ParseURL")
    /\ folder_id' = get_shared_folder_id(shared_url)
    /\ IF ~Truthy(folder_id')
       THEN Return("False")
       ELSE orchPc' = "AcquireCredential" /\ result' = result
    /\ UNCHANGED outsideOrch
    /\ UNCHANGED <<shared_url, download_path, tree, credentials, service, files, stack,
                   dirs, local_files, calls>>

AcquireCredential ==
    /\ orchPc = "AcquireCredential"
    /\ stages' = Append(stages, "AcquireCredential")
    /\ \E env \in CredEnvs : credentials' = get_credentials(env).creds
    /\ IF credentials' = "None"
       THEN Return("False")
       ELSE orchPc' = "BuildClient" /\ result' = result
    /\ UNCHANGED outsideOrch
    /\ UNCHANGED <<shared_url, folder_id, download_path, tree, service, files, stack, dirs,
                   local_files, calls>>

\* create_service: build raises, the exception is caught and None returned
BuildClient ==
    /\ orchPc = "BuildClient"
    /\ stages' = Append(stages, "BuildClient")
    /\ service' \in {"None", "service"}
    /\ IF service' = "None"
       THEN Return("False")
       ELSE orchPc' = "ListRoot" /\ result' = result
    /\ UNCHANGED outsideOrch
    /\ UNCHANGED <<shared_url, folder_id, download_path, tree, credentials, files, stack,
                   dirs, local_files, calls>>

ListRoot ==
    /\ orchPc = "ListRoot"
    /\ stages' = Append(stages, "ListRoot")
    /\ \E fault \in ListFaults :
        LET listed == list_files_in_folder(Answers(tree[RootId], fault))
        IN  /\ calls' = [calls EXCEPT !.list = @ + 1,
                                      !.faults = IF fault = "none" THEN @ ELSE @ + 1]
            /\ IF listed.kind # "return"
               THEN orchPc' = "raised" /\ result' = result /\ files' = files
               ELSE IF listed.val = <<>>
               THEN Return("True") /\ files' = listed.val
               ELSE orchPc' = "Traverse" /\ result' = result /\ files' = listed.val
    /\ UNCHANGED outsideOrch
    /\ UNCHANGED <<shared_url, folder_id, download_path, tree, credentials, service, stack,
                   dirs, local_files>>

\* process_files(service, files, download_path)
Traverse ==
    /\ orchPc = "Traverse"
    /\ stages' = Append(stages, "Traverse")
    /\ stack' = <<Frame(files, <<>>)>>
    /\ calls' = [calls EXCEPT !.invoked = @ \cup {files}]
    /\ orchPc' = "Walk"
    /\ UNCHANGED outsideOrch
    /\ UNCHANGED <<shared_url, folder_id, download_path, tree, result, credentials,
                   service, files, dirs, local_files>>

\* process_files has returned
ReturnTrue ==
    /\ orchPc = "Walk"
    /\ stack = <<>>
    /\ Return("True")
    /\ UNCHANGED outsideOrch
    /\ UNCHANGED <<shared_url, folder_id, download_path, tree, stages, credentials,
                   service, files, stack, dirs, local_files, calls>>

Next ==
    \/ CheckInputs
    \/ ParseURL
    \/ AcquireCredential
    \/ BuildClient
    \/ ListRoot
    \/ Traverse
    \/ SkipEntry
    \/ EnterFolder
    \/ DownloadEntry
    \/ ReturnProcessFiles
    \/ ReturnTrue

-----------------------------------------------------------------------------
(* DriveDownloaderGUI *)

\* A perform_download thread is "unstarted", then at "makedirs" (the check
\* of the download path), at "orchestrator" (inside
\* download_files_from_shared_link), at "update_status" and at "enable" (the
\* two calls that queue a callback), and at last "ended"; it is "died" when
\* an exception left download_files_from_shared_link.
Threads == 1..MaxRuns

\* the thread is inside perform_download
InRun(t) == workers[t].pc \in {"makedirs", "orchestrator", "update_status", "enable"}

GuiInit ==
    /\ entries = [shared_link |-> "", download_path |-> ""]
    /\ button = "normal"
    /\ status_text = "Ready"
    /\ error_label = [shown |-> FALSE, timers |-> 0]
    /\ after_queue = <<>>
    /\ workers = [t \in Threads |-> [pc |-> "unstarted", text |-> ""]]

GuiIdle ==
    /\ entries = [shared_link |-> "", download_path |-> ""]
    /\ button = "normal"
    /\ status_text = "Ready"
    /\ error_label = [shown |-> FALSE, timers |-> 0]
    /\ after_queue = <<>>
    /\ workers = <<>>

outsideGui == <<urlVars, listVars, credVars, orchVars>>

\* the user fills or empties a field
EditEntries ==
    /\ \E link \in {"", "url"}, path \in {"", "dir"} :
            /\ [shared_link |-> link, download_path |-> path] # entries
            /\ entries' = [shared_link |-> link, download_path |-> path]
    /\ UNCHANGED <<button, status_text, error_label, after_queue, workers, outsideGui>>

\* the state start_download gives the Download button
StartButtonState_normal == "normal"
StartButtonState == "disabled"

\* show_error: the label is shown and clear_error is set to run later
ShowError ==
    /\ error_label' = [shown |-> TRUE, timers |-> error_label.timers + 1]
    /\ UNCHANGED <<button, status_text, workers>>

\* A click on the Download button; a disabled button runs no command.
\* start_download shows an error when a field is empty, and otherwise
\* disables the button and starts a perform_download thread.
StartDownload ==
    /\ button = "normal"
    /\ IF entries.shared_link = "" \/ entries.download_path = ""
       THEN /\ error_label.timers < MaxRuns
            /\ ShowError
       ELSE /\ \E t \in Threads :
                /\ workers[t].pc = "unstarted"
                /\ \A u \in 1..(t - 1) : workers[u].pc # "unstarted"
                /\ workers' = [workers EXCEPT ![t].pc = "makedirs"]
            /\ error_label' = [error_label EXCEPT !.shown = FALSE]
            /\ button' = StartButtonState
            /\ status_text' = "Downloading..."
    /\ UNCHANGED <<entries, after_queue, outsideGui>>

\* clear_error, 5000 ms after show_error
ClearError ==
    /\ error_label.timers > 0
    /\ error_label' = [shown |-> FALSE, timers |-> error_label.timers - 1]
    /\ UNCHANGED <<entries, button, status_text, after_queue, workers, outsideGui>>

\* perform_download: the download path exists or is created, or os.makedirs
\* raises OSError
WorkerMakedirs(t) ==
    /\ workers[t].pc = "makedirs"
    /\ \E created \in BOOLEAN :
            workers' = [workers EXCEPT ![t] =
                IF created THEN [pc |-> "orchestrator", text |-> ""]
                ELSE [pc |-> "update_status",
                      text |-> "Error: Could not create download directory."]]
    /\ UNCHANGED <<entries, button, status_text, error_label, after_queue, outsideGui>>

\* perform_download: download_files_from_shared_link returns True or False,
\* or an exception leaves it, and the thread with it
WorkerOrchestrator(t) ==
    /\ workers[t].pc = "orchestrator"
    /\ \E outcome \in {"True", "False", "raised"} :
            workers' = [workers EXCEPT ![t] =
                IF outcome = "True"
                THEN [pc |-> "update_status", text |-> "Download complete!"]
                ELSE IF outcome = "False"
                THEN [pc |-> "update_status", text |-> "Download failed."]
                ELSE [pc |-> "died", text |-> ""]]
    /\ UNCHANGED <<entries, button, status_text, error_label, after_queue, outsideGui>>

\* update_status: after(0, status_text.set, text)
WorkerUpdateStatus(t) ==
    /\ workers[t].pc = "update_status"
    /\ after_queue' = Append(after_queue, [fn |-> "status_text.set", text |-> workers[t].text])
    /\ workers' = [workers EXCEPT ![t].pc = "enable"]
    /\ UNCHANGED <<entries, button, status_text, error_label, outsideGui>>

\* enable_download_button: after(0, enable_download_button_internal), and
\* perform_download returns
WorkerEnable(t) ==
    /\ workers[t].pc = "enable"
    /\ after_queue' = Append(after_queue,
                             [fn |-> "enable_download_button_internal", text |-> ""])
    /\ workers' = [workers EXCEPT ![t].pc = "ended"]
    /\ UNCHANGED <<entries, button, status_text, error_label, outsideGui>>

\* the main loop runs the oldest queued callback
RunCallback ==
    /\ after_queue # <<>>
    /\ after_queue' = Tail(after_queue)
    /\ IF Head(after_queue).fn = "status_text.set"
       THEN status_text' = Head(after_queue).text /\ button' = button
       ELSE button' = "normal" /\ status_text' = status_text
    /\ UNCHANGED <<entries, error_label, workers, outsideGui>>


NextGui ==
    \/ EditEntries
    \/ StartDownload
    \/ ClearError
    \/ \E t \in Threads : WorkerMakedirs(t)
    \/ \E t \in Threads : WorkerOrchestrator(t)
    \/ \E t \in Threads : WorkerUpdateStatus(t)
    \/ \E t \in Threads : WorkerEnable(t)
    \/ RunCallback

-----------------------------------------------------------------------------
(* Specifications: of the orchestrator with the walk, of the front end,    *)
(* and of each of the three functions called on its own                    *)

Init == OrchInit /\ ListIdle /\ CredIdle /\ GuiIdle

Spec == Init /\ [][Next]_vars

InitGui == GuiInit /\ UrlIdle /\ ListIdle /\ CredIdle /\ OrchIdle

SpecGui == InitGui /\ [][NextGui]_vars

\* The scheduling of the front end: a started thread goes on running, and the
\* main loop goes on running the callbacks queued by after(0, ...).  Nothing
\* makes the user click or type.
FairGui ==
    /\ \A t \in Threads :
            /\ WF_vars(WorkerMakedirs(t))
            /\ WF_vars(WorkerOrchestrator(t))
            /\ WF_vars(WorkerUpdateStatus(t))
            /\ WF_vars(WorkerEnable(t))
    /\ WF_vars(RunCallback)

SpecGuiFair == InitGui /\ [][NextGui]_vars /\ FairGui

UrlNext == CallGetSharedFolderId
ListNext == CallListFilesInFolder
CredNext == CallGetCredentials

InitUrl == UrlInit /\ ListIdle /\ CredIdle /\ OrchIdle /\ GuiIdle
InitList == ListInit /\ UrlIdle /\ CredIdle /\ OrchIdle /\ GuiIdle
InitCred == CredInit /\ UrlIdle /\ ListIdle /\ OrchIdle /\ GuiIdle

SpecUrl == InitUrl /\ [][UrlNext]_vars

SpecList == InitList /\ [][ListNext]_vars

SpecCred == InitCred /\ [][CredNext]_vars

-----------------------------------------------------------------------------
(* Claims about list_files_in_folder *)

\* no page request of the source raises
NoError(source) == \A i \in 1..Len(source) : source[i].kind \in {"dict", "empty"}

\* the entries of all the pages of the source, in page order
RECURSIVE ConcatPages(_)
ConcatPages(source) ==
    IF source = <<>> THEN <<>> ELSE Head(source).files \o ConcatPages(Tail(source))

\* C3: for every paginated source whose requests all succeed (a page that
\* carries a cursor but no entries included), list_files_in_folder requests
\* all N pages and returns the concatenation of their entries in page order.
AllPagesConcatenated ==
    (listPc = "returned" /\ NoError(list_source)) =>
        /\ list_result.kind = "return"
        /\ list_result.requests = Len(list_source)
        /\ list_result.val = ConcatPages(list_source)

\* the last page request of the call raised HttpError
HttpErrorMet ==
    /\ listPc = "returned"
    /\ list_source[list_result.requests].kind = "HttpError"

\* the listing of an empty folder
EmptyFolder == <<Page(<<>>, FALSE)>>

-----------------------------------------------------------------------------
(* Claims about get_shared_folder_id *)

\* the places of url where marker occurs
Occurrences(url, marker) ==
    {i \in 1..Len(url) :
        i + Len(marker) - 1 <= Len(url) /\ SubSeq(url, i, i + Len(marker) - 1) = marker}

\* the substring of url that starts at place start and ends before the next
\* "?" or "&", whichever comes first, or at the end of url
UpToDelimiter(url, start) ==
    LET stops == {j \in start..Len(url) : url[j] \in {"?", "&"}}
        end == IF stops = {} THEN Len(url)
               ELSE (CHOOSE j \in stops : \A k \in stops : j <= k) - 1
    IN  SubSeq(url, start, end)

\* the substring right after the first occurrence of marker
Between(url, marker) ==
    LET at == CHOOSE i \in Occurrences(url, marker) :
                    \A k \in Occurrences(url, marker) : i <= k
    IN  UpToDelimiter(url, at + Len(marker))

\* url is a valid share link of the shape of marker: marker occurs once and
\* the other marker does not, a non-empty identifier follows it, and the
\* identifier goes to the end of url or to the delimiter of the shape
ValidUrl(url, marker, other, delimiter) ==
    /\ Cardinality(Occurrences(url, marker)) = 1
    /\ Occurrences(url, other) = {}
    /\ LET id == Between(url, marker)
           next == (CHOOSE i \in Occurrences(url, marker) : TRUE) + Len(marker) + Len(id)
       IN  /\ id # <<>>
           /\ \A i \in 1..Len(id) : id[i] \in IdChars
           /\ next <= Len(url) => <<url[next]>> = delimiter

ValidFoldersUrl(url) == ValidUrl(url, FOLDERS, FOLDERVIEW, QMARK)
ValidFolderviewUrl(url) == ValidUrl(url, FOLDERVIEW, FOLDERS, AMP)

\* C7: for every valid share link of either shape, get_shared_folder_id
\* returns exactly the substring that starts right after the marker and ends
\* before the next "?" or "&", whichever comes first, or at the end.
IdIsSubstringAfterMarker ==
    urlPc = "returned" =>
        /\ ValidFoldersUrl(shared_url) => folder_id = Str(Between(shared_url, FOLDERS))
        /\ ValidFolderviewUrl(shared_url) =>
                folder_id = Str(Between(shared_url, FOLDERVIEW))

\* a valid link of the first shape, the identifier a followed by a query
\* that holds both delimiters
FoldersUrlWithQuery ==
    /\ urlPc = "returned"
    /\ ValidFoldersUrl(shared_url)
    /\ Contains(shared_url, <<"a">> \o QMARK \o AMP)
    /\ folder_id = Str(<<"a">>)

\* url holds no identifier: it is empty, holds neither marker, or its first
\* marker is followed by no identifier character
NoIdentifier(url) ==
    \/ url = <<>>
    \/ Occurrences(url, FOLDERS) = {} /\ Occurrences(url, FOLDERVIEW) = {}
    \/ \E marker \in {FOLDERS, FOLDERVIEW} :
            /\ Occurrences(url, marker) # {}
            /\ Between(url, marker) = <<>>

\* C8: get_shared_folder_id never raises and never returns an empty
\* identifier: it returns None for every input that holds no identifier, and
\* every identifier it returns is a non-empty string.
NeverEmptyIdentifier ==
    urlPc = "returned" =>
        /\ folder_id.kind \in {"None", "str"}
        /\ folder_id.kind = "str" => folder_id.val # <<>>
        /\ NoIdentifier(shared_url) => folder_id = None

-----------------------------------------------------------------------------
(* Claims about get_credentials *)

\* the call takes the token path
TokenPath(env) == ~env.use_service_account \/ env.sa_file # "ok"

\* the token is to be refreshed
NeedsRefresh(env) ==
    env.token_file = "ok" /\ ~env.valid /\ env.expired /\ env.refresh_token

\* the saved token is absent or unloadable, is invalid without being
\* expired with a refresh token, or its refresh fails
TokenFailure(env) ==
    \/ env.token_file # "ok"
    \/ ~env.valid /\ ~(env.expired /\ env.refresh_token)
    \/ NeedsRefresh(env) /\ ~env.refresh_ok

\* C9: get_credentials never aborts; when the service credential cannot be
\* loaded it takes the token path, where it returns None exactly when the
\* saved token is absent or unloadable, is invalid without being expired
\* with a refresh token, or its refresh fails; after a successful refresh
\* the token file is rewritten, and the credential is returned even when the
\* writing fails.
CredentialFallback ==
    credPc = "returned" =>
        /\ cred_result.kind = "return"
        /\ ~TokenPath(cred_env) => cred_result.creds = "service_account"
        /\ TokenPath(cred_env) =>
                /\ cred_result.creds \in {"None", "user"}
                /\ cred_result.creds = "None" <=> TokenFailure(cred_env)
                /\ cred_result.refreshed <=>
                        (NeedsRefresh(cred_env) /\ cred_env.refresh_ok)
        /\ cred_result.refreshed =>
                /\ cred_result.creds = "user"
                /\ cred_result.written = cred_env.save_ok

\* the service credential is unloadable, the token is refreshed and the
\* token file cannot be written: the credential is returned all the same
FallbackRefreshUnsaved ==
    /\ credPc = "returned"
    /\ cred_env.use_service_account /\ cred_env.sa_file # "ok"
    /\ cred_result.refreshed /\ ~cred_env.save_ok
    /\ cred_result.creds = "user" /\ ~cred_result.written

-----------------------------------------------------------------------------
(* Claims about process_files *)

\* <<path, id>> of every remote file below a folder, path being the local
\* path of the file: the names from the root to the file
RECURSIVE RemoteFiles(_, _, _)
RemoteFiles(t, folder, path) ==
    UNION { IF t[folder][k].mimeType = "folder"
            THEN RemoteFiles(t, t[folder][k].id, Append(path, t[folder][k].name))
            ELSE {<<Append(path, t[folder][k].name), t[folder][k].id>>}
          : k \in 1..Len(t[folder]) }

\* the local paths of the remote folders that hold an entry
RECURSIVE RemoteFolders(_, _, _)
RemoteFolders(t, folder, path) ==
    UNION { IF t[folder][k].mimeType = "folder"
            THEN (IF t[t[folder][k].id] # <<>>
                  THEN {Append(path, t[folder][k].name)} ELSE {})
                 \cup RemoteFolders(t, t[folder][k].id, Append(path, t[folder][k].name))
            ELSE {}
          : k \in 1..Len(t[folder]) }

NoDuplicate(seq) == \A k, l \in 1..Len(seq) : seq[k] = seq[l] => k = l

\* the walk of the root listing is over and nothing failed in it
WalkedWithoutFailure ==
    /\ orchPc = "done"
    /\ "Traverse" \in {stages[k] : k \in 1..Len(stages)}
    /\ calls.root_existed
    /\ calls.faults = 0

\* C1: when every listing and every download succeeds and the local root
\* exists, process_files writes each remote file of path p/name below the
\* root to the local file p/name below the download path, and os.makedirs
\* is called at most once per directory path during the whole walk (every
\* folder that holds an entry has its directory at the end).
TreeMirrored ==
    /\ calls.faults = 0 => NoDuplicate(calls.makedirs)
    /\ WalkedWithoutFailure =>
        /\ calls.written = RemoteFiles(tree, RootId, <<>>)
        /\ \A w \in calls.written :
                \E f \in local_files : f.path = w[1] /\ f.complete
        /\ RemoteFolders(tree, RootId, <<>>) \subseteq dirs

\* the nested folders were walked without failure into an empty download
\* directory: one directory made per folder, the deepest file in place
ChainMirrored ==
    /\ WalkedWithoutFailure
    /\ tree = ChainTree
    /\ Len(calls.makedirs) = MaxDepth
    /\ \E f \in local_files :
            f.path = Append([k \in 1..MaxDepth |-> "sub"], "d.txt") /\ f.complete

\* C2: a failure confined to one entry (the listing of a subfolder, the
\* download of a file, the creation of a directory) never aborts
\* process_files: the walk returns normally to its caller, every entry of
\* every listing it was called with having been come to.
FailuresIsolated ==
    "Traverse" \in {stages[k] : k \in 1..Len(stages)} =>
        /\ orchPc # "raised"
        /\ orchPc = "done" =>
                \A listing \in calls.invoked : \A k \in 1..Len(listing) :
                    \E v \in 1..Len(calls.visited) : calls.visited[v] = listing[k].id

-----------------------------------------------------------------------------
(* Claims about download_files_from_shared_link *)

IsPrefix(a, b) == Len(a) <= Len(b) /\ a = SubSeq(b, 1, Len(a))

\* C5: the stages are entered in the order ParseURL, AcquireCredential,
\* BuildClient, ListRoot, Traverse; the call returns False as soon as one of
\* the first three yields no usable value, no later stage being entered;
\* with an empty link or an empty download path no stage is entered; and
\* when False is returned no listing and no download was called.
StagesInOrder ==
    /\ IsPrefix(stages, StageOrder)
    /\ (orchPc # "start" /\ (shared_url = <<>> \/ download_path = <<>>)) =>
            stages = <<>> /\ result = "False"
    /\ (stages # <<>> /\ ~Truthy(folder_id)) =>
            stages = SubSeq(StageOrder, 1, 1) /\ result = "False"
    /\ credentials = "None" => stages = SubSeq(StageOrder, 1, 2) /\ result = "False"
    /\ service = "None" => stages = SubSeq(StageOrder, 1, 3) /\ result = "False"
    /\ result = "False" =>
            /\ orchPc = "done"
            /\ Len(stages) <= 3
            /\ calls.list = 0 /\ calls.download = 0

\* the client could not be built: False after the first three stages
ClientFailure ==
    /\ result = "False"
    /\ service = "None"
    /\ stages = SubSeq(StageOrder, 1, 3)
    /\ calls.list = 0

\* C6: once the ListRoot stage is reached the call always returns True:
\* with an empty root listing it has created no file and called no
\* download, and otherwise it returns True after the walk whatever failed
\* in it.
TrueAfterListRoot ==
    "ListRoot" \in {stages[k] : k \in 1..Len(stages)} =>
        /\ orchPc # "raised"
        /\ orchPc = "done" =>
            /\ result = "True"
            /\ files = <<>> =>
                    calls.download = 0 /\ calls.written = {} /\ calls.makedirs = <<>>
            /\ files # <<>> => files \in calls.invoked

\* what holds of the call when no listing raises an exception that is no
\* HttpError: the part of C2 and C6 the code keeps
TrueAfterListRootUnlessRaised ==
    ("ListRoot" \in {stages[k] : k \in 1..Len(stages)} /\ orchPc = "done") =>
        /\ result = "True"
        /\ files = <<>> =>
                calls.download = 0 /\ calls.written = {} /\ calls.makedirs = <<>>
        /\ \A listing \in calls.invoked : \A k \in 1..Len(listing) :
                \E v \in 1..Len(calls.visited) : calls.visited[v] = listing[k].id

-----------------------------------------------------------------------------
(* Claims about DriveDownloaderGUI *)

\* C10: the Download button is disabled while a run is in progress, and
\* under every interleaving of clicks, thread steps and queued callbacks at
\* most one perform_download thread is running at any time.
OneRunAtATime ==
    /\ Cardinality({t \in Threads : InRun(t)}) <= 1
    /\ (\E t \in Threads : InRun(t)) => button = "disabled"

\* a second run is in progress after the first one has ended
SecondRunInProgress ==
    /\ workers[1].pc = "ended"
    /\ workers[2].pc = "orchestrator"
    /\ button = "disabled"

\* the run is over for the user: the Download button is enabled again and
\* the status indicator shows a final message
RunOver == button = "normal" /\ status_text \notin {"Ready", "Downloading..."}

\* C11: every run started from the front end eventually ends with the
\* Download button enabled again and the status indicator changed from
\* "Downloading..." to a final message, however perform_download ends (the
\* download directory cannot be created, True or False is returned, or an
\* exception leaves download_files_from_shared_link).
EveryRunEnds ==
    \A t \in Threads : (workers[t].pc = "makedirs") ~> RunOver

\* what holds of the runs whose thread is not left by an exception: the part
\* of C11 the code keeps
EveryRunEndsUnlessDied ==
    \A t \in Threads : (workers[t].pc = "makedirs") ~> (RunOver \/ workers[t].pc = "died")

\* once a thread has died the button stays disabled and the status stays
\* "Downloading..."
DiedRunStaysOpen ==
    (\E t \in Threads : workers[t].pc = "died") =>
        button = "disabled" /\ status_text = "Downloading..."

====
